---------------------------- MODULE Spec2Model ----------------------------
(***************************************************************************)
(* FundTrackerAI backend: the registry of donations, identities and orders *)
(* kept in registry.json, and the HTTP handlers that read and write it.    *)
(*                                                                         *)
(* src/backend/server.js holds several revisions of the server one after   *)
(* the other.  Three of them are modelled, each with its own next-state    *)
(* relation over the same state:                                           *)
(*   phase-1      (server.js 1-425)    P1_*  : verify-donation,            *)
(*                                             register-username           *)
(*   orders       (server.js 426-998)  Ord_* : create-order, checkout from *)
(*                                             order, verify-donation,     *)
(*                                             register                    *)
(*   device-token (server.js 999-1246) Dev_* : verify-donation, register   *)
(*                                                                         *)
(* A handler that awaits the payment processor is two steps, Begin and     *)
(* Complete, with the suspended request kept in inflight; everything a     *)
(* handler does between two awaits is one atomic step (single-threaded     *)
(* event loop, synchronous fs calls).                                      *)
(*                                                                         *)
(* Values.  The code only ever tests record fields for truthiness, so      *)
(* null, undefined and "" are one value, "", and a missing number is 0.    *)
(* Timestamps are the integer clock.  sha256 over                          *)
(* email + now + secret + nonce is modelled as the injective encoding of   *)
(* its varying inputs, crypto.randomUUID() as a fresh counter value.       *)
(***************************************************************************)
EXTENDS Integers, Sequences, FiniteSets, TLC

VARIABLES
    registry,    \* parsed contents of registry.json
    sessions,    \* the processor's checkout sessions, id "cs_<index>"
    inflight,    \* handlers suspended on an await of the processor
    clock,       \* new Date()
    nonce,       \* crypto.randomUUID() values drawn so far, per use (mark, identity, order)
    resp,        \* the last response sent
    overlapped,  \* history: some handler ran while another was suspended
    firstMark,   \* history: per session id and order id, the first mark its record carried
    backups      \* the registry.json.backup-<time> files: name (time) and content

vars == <<registry, sessions, inflight, clock, nonce, resp, overlapped, firstMark,
          backups>>

---------------------------------------------------------------------------
\* Bounds of the model.

MaxSessions == 2
MaxInflight == 2
MaxClock == 2
MaxDonations == 2
MaxOrders == 1
MaxWriteFailures == 1

---------------------------------------------------------------------------
\* Input universes.

Emails == {"a@x.com", "A@x.com", "b@y.com"}
PayerEmails == {"A@x.com", "b@y.com"}
DisposableEmails == {"t@mailinator.com"}
Usernames == {"Nova", "zeta"}
Names == {"Ann"}
DeviceIds == {"", "dev1"}
ForgedMark == "forged"

\* String.prototype.toLowerCase on the strings of the universes.
toLowerCase(s) ==
    CASE s = "A@x.com" -> "a@x.com"
      [] s = "Nova" -> "nova"
      [] s = "t@MAILINATOR.COM" -> "t@mailinator.com"
      [] OTHER -> s

\* email.split("@")[1], as its dot-separated labels.
EmailDomain(email) ==
    CASE email \in {"a@x.com", "A@x.com"} -> <<"x", "com">>
      [] email = "b@y.com" -> <<"y", "com">>
      [] email \in {"t@mailinator.com", "t@MAILINATOR.COM"} -> <<"mailinator", "com">>
      [] email = "t@sub.mailinator.com" -> <<"sub", "mailinator", "com">>
      [] email = "t@notmailinator.com" -> <<"notmailinator", "com">>
      [] email = "t@mailinator.com.x.com" -> <<"mailinator", "com", "x", "com">>
      [] OTHER -> <<>>

bannedDomains ==
    { <<"mailinator", "com">>, <<"10minutemail", "com">>, <<"tempmail", "com">>,
      <<"guerrillamail", "com">>, <<"trashmail", "com">>, <<"yopmail", "com">>,
      <<"sharklasers", "com">> }

\* domain === d || domain.endsWith("." + d): d is a suffix of the labels.
IsLabelSuffix(d, domain) ==
    /\ Len(d) <= Len(domain)
    /\ SubSeq(domain, Len(domain) - Len(d) + 1, Len(domain)) = d

\* The gate with the exact comparison only (domain === d).
isExactDisposableDomain(email) ==
    /\ email # ""
    /\ EmailDomain(email) \in bannedDomains

isDisposableEmail(email) ==
    /\ email # ""
    /\ EmailDomain(email) # <<>>
    /\ \E d \in bannedDomains : IsLabelSuffix(d, EmailDomain(email))

---------------------------------------------------------------------------
\* Helpers over sequences (Array.prototype.find / some / includes).

\* Index of the first element satisfying P, 0 when there is none.
FindIdx(seq, P(_)) ==
    IF \E i \in 1..Len(seq) : P(seq[i])
    THEN CHOOSE i \in 1..Len(seq) : P(seq[i]) /\ \A j \in 1..(i - 1) : ~P(seq[j])
    ELSE 0

Includes(seq, x) == \E i \in 1..Len(seq) : seq[i] = x

PushIfNew(seq, x) == IF Includes(seq, x) THEN seq ELSE Append(seq, x)

RemoveAt(seq, i) == SubSeq(seq, 1, i - 1) \o SubSeq(seq, i + 1, Len(seq))

\* a || b on strings and on numbers
OrStr(a, b) == IF a # "" THEN a ELSE b
OrNum(a, b) == IF a # 0 THEN a ELSE b

---------------------------------------------------------------------------
\* The registry file.

EmptyRegistry == [donations |-> <<>>, identities |-> <<>>, orders |-> <<>>, users |-> <<>>]

\* readRegistry(): ensureRegistry() then the parsed file.  The file is
\* well-formed in every state of this model, so the document is returned as is.
readRegistry == registry

\* crypto.createHash("sha256").update(email + now + SOULMARK_SECRET + nonce)
MintSoulmark(email, now, n) ==
    "sm:" \o email \o ":" \o ToString(now) \o ":" \o ToString(n)

SessionId(i) == "cs_" \o ToString(i)
SessionIds == {SessionId(i) : i \in 1..MaxSessions}

\* The ids createOrderId() gives out, and the keys of the mark history.
OrderIds == {"ord-" \o ToString(n) : n \in 1..(MaxOrders + MaxWriteFailures)}
MarkKeys == SessionIds \cup OrderIds

SessionIdx(id) == IF \E i \in 1..Len(sessions) : SessionId(i) = id
                  THEN CHOOSE i \in 1..Len(sessions) : SessionId(i) = id
                  ELSE 0

\* The test of the processor's answer with the payment status left out.
MissingOnly(si) == si = 0

\* !session || session.payment_status !== "paid", si the index of the session
\* the processor answers with, 0 when it answers with none.
UnpaidOrMissing(si) == si = 0 \/ sessions[si].payment_status # "paid"

\* Marks a caller may present: any mark in the ledger, none, or a made-up one.
KnownMarks == {registry.donations[i].soulmark : i \in 1..Len(registry.donations)}
MarkInputs == KnownMarks \cup {"", ForgedMark}

Init ==
    /\ registry = EmptyRegistry
    /\ sessions = <<>>
    /\ inflight = <<>>
    /\ clock = 1
    /\ nonce = [mark |-> 0, identity |-> 0, order |-> 0]
    /\ resp = [op |-> "none"]
    /\ overlapped = FALSE
    /\ firstMark = [id \in MarkKeys |-> ""]
    /\ backups = {}

\* A verify-donation of a paid session begun while another verify-donation of
\* the same session is suspended overlaps it.
NoteSameSessionOverlap(id) ==
    overlapped' = (\/ overlapped
                   \/ /\ ~UnpaidOrMissing(SessionIdx(id))
                      /\ \E j \in 1..Len(inflight) :
                            inflight[j].op = "verify" /\ inflight[j].id = id)

\* A handler step taken while another handler is suspended overlaps it.
NoteOverlap == overlapped' = (overlapped \/ inflight # <<>>)

\* The mark of the record of session id in reg, "" when it has none.
MarkOf(reg, id) ==
    LET di == FindIdx(reg.donations, LAMBDA d : d.id = id)
    IN IF di = 0 THEN "" ELSE reg.donations[di].soulmark

\* The mark of the order order_id in reg, "" when it has none.
OrderMarkOf(reg, order_id) ==
    LET oi == FindIdx(reg.orders, LAMBDA o : o.order_id = order_id)
    IN IF oi = 0 THEN "" ELSE reg.orders[oi].soulmark

\* Every step that writes the registry notes the marks that are new in it.
NoteMarks ==
    firstMark' = [id \in MarkKeys |->
                    IF firstMark[id] # "" THEN firstMark[id]
                    ELSE IF id \in SessionIds THEN MarkOf(registry', id)
                    ELSE OrderMarkOf(registry', id)]

---------------------------------------------------------------------------
\* Environment: time and the payment processor.

Tick ==
    /\ clock < MaxClock
    /\ clock' = clock + 1
    /\ UNCHANGED <<registry, sessions, inflight, nonce, resp, overlapped, firstMark, backups>>

\* The payer completes the checkout of session i.
Pay ==
    \E i \in 1..Len(sessions) :
        /\ sessions[i].payment_status # "paid"
        /\ sessions' = [sessions EXCEPT ![i].payment_status = "paid"]
        /\ UNCHANGED <<registry, inflight, clock, nonce, resp, overlapped, firstMark, backups>>

\* POST /create-checkout-session (donation flow): validates, creates a
\* processor session, touches no registry.  amount is in dollars.
CreateCheckoutSession ==
    \E name \in Names, email \in PayerEmails \cup {""}, amount \in {0, 25} :
        /\ IF email = "" \/ amount = 0 \/ amount < 1
           THEN /\ resp' = [op |-> "create-checkout-session", status |-> 400]
                /\ UNCHANGED sessions
           ELSE /\ Len(sessions) < MaxSessions
                /\ sessions' = Append(sessions,
                       [payment_status |-> "unpaid", email |-> email, name |-> name,
                        amount_total |-> amount * 100, order_id |-> ""])
                /\ resp' = [op |-> "create-checkout-session", status |-> 200]
        /\ UNCHANGED <<registry, inflight, clock, nonce, overlapped, firstMark, backups>>

---------------------------------------------------------------------------
\* Phase-1 revision.

\* GET /verify-donation/:id up to its await of stripe.checkout.sessions.retrieve
P1_VerifyBegin ==
    \E id \in SessionIds :
        /\ Len(inflight) < MaxInflight
        /\ inflight' = Append(inflight, [op |-> "verify", id |-> id])
        /\ UNCHANGED <<registry, sessions, clock, nonce, resp, overlapped, firstMark, backups>>

\* The donation record minted for a session that has none.
P1_NewDonation(id, s, now, n) ==
    LET email == OrStr(s.email, "unknown@example.com")
    IN [id |-> id, name |-> OrStr(s.name, "Donor"), email |-> email,
        amount |-> s.amount_total, timestamp |-> now,
        soulmark |-> MintSoulmark(email, now, n),
        username_created |-> FALSE, identity_username |-> ""]

\* "Normalize older records": the existing record with its empty fields filled.
P1_Backfill(d, s, now, n) ==
    LET email == OrStr(s.email, "unknown@example.com")
    IN [d EXCEPT !.name = OrStr(OrStr(d.name, s.name), "Donor"),
                 !.email = OrStr(d.email, email),
                 !.amount = OrNum(d.amount, s.amount_total),
                 !.timestamp = OrNum(d.timestamp, now),
                 !.soulmark = OrStr(d.soulmark, MintSoulmark(email, now, n))]

\* GET /verify-donation/:id from the processor's answer to the response.  For
\* an id it does not know the processor answers with no session, or the call
\* rejects (P1_VerifyFail).
P1_VerifyCompleteStep(k) ==
        LET rq == inflight[k]
            si == SessionIdx(rq.id)
        IN /\ rq.op = "verify"
           /\ inflight' = RemoveAt(inflight, k)
           /\ IF UnpaidOrMissing(si)
              THEN \* !session || session.payment_status !== "paid"
                   /\ resp' = [op |-> "verify", status |-> 200,
                               verified |-> FALSE]
                   /\ UNCHANGED <<registry, nonce, firstMark>>
              ELSE LET reg == readRegistry
                       di == FindIdx(reg.donations, LAMBDA d : d.id = rq.id)
                   IN IF di = 0
                      THEN LET donation == P1_NewDonation(rq.id, sessions[si], clock, nonce.mark + 1)
                           IN /\ registry' = [reg EXCEPT !.donations = Append(@, donation)]
                              /\ NoteMarks
                              /\ nonce' = [nonce EXCEPT !.mark = @ + 1]
                              /\ resp' = [op |-> "verify", status |-> 200,
                                          verified |-> TRUE]
                      ELSE LET donation == P1_Backfill(reg.donations[di], sessions[si],
                                                       clock, nonce.mark + 1)
                           IN /\ IF reg.donations[di].soulmark = ""
                                 THEN /\ registry' = [reg EXCEPT !.donations[di] = donation]
                                      /\ NoteMarks
                                      /\ nonce' = [nonce EXCEPT !.mark = @ + 1]
                                 ELSE UNCHANGED <<registry, nonce, firstMark>>
                              /\ resp' = [op |-> "verify", status |-> 200,
                                          verified |-> TRUE]
           /\ UNCHANGED <<sessions, clock, overlapped, backups>>

P1_VerifyComplete == \E k \in 1..Len(inflight) : P1_VerifyCompleteStep(k)

\* ... when stripe.checkout.sessions.retrieve rejects: caught, 500, nothing
\* read or written.
P1_VerifyFailStep(k) ==
    /\ inflight[k].op = "verify"
    /\ inflight' = RemoveAt(inflight, k)
    /\ resp' = [op |-> "verify", status |-> 500]
    /\ UNCHANGED <<registry, sessions, clock, nonce, overlapped, firstMark, backups>>

P1_VerifyFail == \E k \in 1..Len(inflight) : P1_VerifyFailStep(k)

\* The availability test without the lowercasing of the requested name.
CheckUsernameAvailableExact(reg, rawUsername) ==
    ~\E i \in 1..Len(reg.identities) :
        toLowerCase(reg.identities[i].username) = rawUsername

\* GET /check-username/:username (the same code in the phase-1 and the orders
\* revision).  The route does not match an empty :username.
CheckUsernameAvailable(reg, rawUsername) ==
    LET username == toLowerCase(rawUsername)
        taken == \E i \in 1..Len(reg.identities) :
                     toLowerCase(reg.identities[i].username) = username
    IN ~taken

CheckUsernameStep(rawUsername) ==
    /\ resp' = [op |-> "check-username", status |-> 200,
                available |-> CheckUsernameAvailable(readRegistry, rawUsername)]
    /\ UNCHANGED <<registry, sessions, inflight, clock, nonce, overlapped, firstMark,
                   backups>>

CheckUsername == \E rawUsername \in Usernames : CheckUsernameStep(rawUsername)

\* 6A. SoulMark must belong to this email
P1_OwnsSoulmark(donations, soulmark, canonicalEmail) ==
    \E i \in 1..Len(donations) :
        /\ donations[i].soulmark = soulmark
        /\ donations[i].email # ""
        /\ toLowerCase(donations[i].email) = canonicalEmail

\* 6B with the email comparison inverted (=== for !==).
P1_ConflictSameEmail(identities, canonicalUsername, canonicalEmail) ==
    \E i \in 1..Len(identities) :
        /\ toLowerCase(identities[i].username) = canonicalUsername
        /\ toLowerCase(identities[i].email) = canonicalEmail

\* 6B. Username can never be reused by a different email
P1_Conflict(identities, canonicalUsername, canonicalEmail) ==
    \E i \in 1..Len(identities) :
        /\ toLowerCase(identities[i].username) = canonicalUsername
        /\ toLowerCase(identities[i].email) # canonicalEmail

\* The freeze test with === for !==.
P1_FrozenWhenSame(identity, canonicalUsername) ==
    LET existingUsername == toLowerCase(identity.username)
    IN existingUsername # "" /\ existingUsername = canonicalUsername

\* 6C. existing identity: the username freeze
P1_Frozen(identity, canonicalUsername) ==
    LET existingUsername == toLowerCase(identity.username)
    IN existingUsername # "" /\ existingUsername # canonicalUsername

\* 6D comparing the stored email as it is written, without toLowerCase().
StampDonationsExactEmail(donations, canonicalEmail, canonicalUsername) ==
    [i \in 1..Len(donations) |->
        IF donations[i].email = canonicalEmail
        THEN [donations[i] EXCEPT !.username_created = TRUE,
                                  !.identity_username = canonicalUsername]
        ELSE donations[i]]

\* A stamping that leaves out the email test of 6D.
StampEveryDonation(donations, canonicalEmail, canonicalUsername) ==
    [i \in 1..Len(donations) |->
        [donations[i] EXCEPT !.username_created = TRUE,
                             !.identity_username = canonicalUsername]]

\* 6D. Update all donations for this email with identity_username
StampDonations(donations, canonicalEmail, canonicalUsername) ==
    [i \in 1..Len(donations) |->
        IF donations[i].email # "" /\ toLowerCase(donations[i].email) = canonicalEmail
        THEN [donations[i] EXCEPT !.username_created = TRUE,
                                  !.identity_username = canonicalUsername]
        ELSE donations[i]]

\* A rejection that writes the registry without its identities.
P1_RejectedDroppingIdentities(reg, status, error) ==
    [status |-> status, error |-> error, registry |-> [reg EXCEPT !.identities = <<>>]]

\* return res.status(...).json({ success: false, ... }): the handler returns
\* before it has changed or written the registry it read.
P1_Rejected(reg, status, error) ==
    [status |-> status, error |-> error, registry |-> reg]

\* POST /register-username: the status, the message and the registry written
\* (the registry read, when the request is rejected).
P1_RegisterUsernameResult(reg, email, username, soulmark, device_id, now, uuid) ==
    LET canonicalUsername == toLowerCase(username)
        canonicalEmail == toLowerCase(email)
        identities == reg.identities
        donations == reg.donations
        ii == FindIdx(identities, LAMBDA i : toLowerCase(i.email) = canonicalEmail)
        newIdentity ==
            [identity_id |-> "ias-" \o ToString(uuid), username |-> canonicalUsername,
             email |-> email, soulmarks |-> <<soulmark>>, registered_since |-> now,
             device_ids |-> IF device_id # "" THEN <<device_id>> ELSE <<>>]
        updIdentity ==
            [identities[ii] EXCEPT
                !.username = canonicalUsername,
                !.soulmarks = PushIfNew(@, soulmark),
                !.device_ids = IF device_id # "" THEN PushIfNew(@, device_id) ELSE @]
        stamped == StampDonations(donations, canonicalEmail, canonicalUsername)
    IN IF email = "" \/ username = "" \/ soulmark = ""
       THEN P1_Rejected(reg, 400, "MissingField")
       ELSE IF isDisposableEmail(email)
       THEN P1_Rejected(reg, 400, "DisposableEmail")
       ELSE IF ~P1_OwnsSoulmark(donations, soulmark, canonicalEmail)
       THEN P1_Rejected(reg, 400, "MarkNotOwned")
       ELSE IF P1_Conflict(identities, canonicalUsername, canonicalEmail)
       THEN P1_Rejected(reg, 409, "HandleTaken")
       ELSE IF ii = 0
       THEN [status |-> 200, error |-> "",
             registry |-> [reg EXCEPT !.identities = Append(identities, newIdentity),
                                      !.donations = stamped]]
       ELSE IF P1_Frozen(identities[ii], canonicalUsername)
       THEN P1_Rejected(reg, 409, "HandleFrozen")
       ELSE [status |-> 200, error |-> "",
             registry |-> [reg EXCEPT !.identities[ii] = updIdentity,
                                      !.donations = stamped]]

\* Request bodies of POST /register-username: every combination of a present
\* email, username and soulmark, and one body for each way a field can be
\* missing or the email disposable.
RegisterUsernameInputs ==
    {<<e, u, m, dv>> : e \in Emails, u \in Usernames, m \in MarkInputs \ {""},
                       dv \in DeviceIds}
    \cup {<<"", "zeta", ForgedMark, "">>, <<"b@y.com", "", ForgedMark, "">>,
          <<"b@y.com", "zeta", "", "">>}
    \cup {<<e, "zeta", m, "">> : e \in DisposableEmails, m \in MarkInputs \ {""}}

P1_RegisterUsernameStep(in) ==
        LET r == P1_RegisterUsernameResult(readRegistry, in[1], in[2], in[3], in[4],
                                           clock, nonce.identity + 1)
        IN /\ registry' = r.registry
           /\ nonce' = IF Len(r.registry.identities) > Len(registry.identities)
                       THEN [nonce EXCEPT !.identity = @ + 1] ELSE nonce
           /\ resp' = [op |-> "register-username", status |-> r.status, error |-> r.error]
           /\ NoteMarks
           /\ UNCHANGED <<sessions, inflight, clock, overlapped, backups>>

P1_RegisterUsername == \E in \in RegisterUsernameInputs : P1_RegisterUsernameStep(in)

NextPhase1 ==
    \/ Pay
    \/ CreateCheckoutSession
    \/ P1_VerifyBegin
    \/ P1_VerifyComplete
    \/ P1_VerifyFail
    \/ CheckUsername
    \/ P1_RegisterUsername

SpecPhase1 == Init /\ [][NextPhase1]_vars

\* GET /donations: the public donations view answers with the stored donation
\* records as they are, every field included.
GetDonations ==
    /\ resp' = [op |-> "donations", status |-> 200, donations |-> registry.donations]
    /\ UNCHANGED <<registry, sessions, inflight, clock, nonce, overlapped, firstMark, backups>>

\* Payments, confirmations and the public donations view.
NextPhase1Public ==
    \/ Pay
    \/ CreateCheckoutSession
    \/ P1_VerifyBegin
    \/ P1_VerifyComplete
    \/ P1_VerifyFail
    \/ GetDonations

SpecPhase1Public == Init /\ [][NextPhase1Public]_vars

---------------------------------------------------------------------------
\* Orders revision.

\* An item of a create-order body: amount_cents and amount are each a number
\* or absent; amount (dollars) is carried in thousandths of a dollar.
Item(hasCents, cents, hasAmount, milli) ==
    [isNull |-> FALSE, hasCents |-> hasCents, amount_cents |-> cents,
     hasAmount |-> hasAmount, amount_milli |-> milli]
NullItem ==
    [isNull |-> TRUE, hasCents |-> FALSE, amount_cents |-> 0,
     hasAmount |-> FALSE, amount_milli |-> 0]

\* Numbers of a request body are IEEE doubles: JSON.parse reads 1e999 as
\* Infinity.  Finite values are the integers; Infinity, -Infinity and NaN are
\* the three reserved values below (NaN is kept positive: NaN <= 0 is false).
PosInfinity == 1000000000
NegInfinity == 0 - 1000000000
NaN == 2000000000
NonFinite == {PosInfinity, NegInfinity, NaN}

\* a + b on doubles
NumAdd(a, b) ==
    IF a = NaN \/ b = NaN THEN NaN
    ELSE IF a = PosInfinity THEN (IF b = NegInfinity THEN NaN ELSE PosInfinity)
    ELSE IF a = NegInfinity THEN (IF b = PosInfinity THEN NaN ELSE NegInfinity)
    ELSE IF b \in NonFinite THEN b
    ELSE a + b

\* JSON.stringify of a number, read back: a non-finite number is written as
\* null, which is the missing number 0 of this model.
JsonNumber(x) == IF x \in NonFinite THEN 0 ELSE x

\* Math.round(item.amount * 100): round half up, amount = milli / 1000
RoundCents(milli) == IF milli \in NonFinite THEN milli ELSE (milli + 5) \div 10

\* items.reduce((sum, item) => ..., 0)
RECURSIVE ReduceItems(_, _)
ReduceItems(items, sum) ==
    IF items = <<>> THEN sum
    ELSE LET item == Head(items)
         IN ReduceItems(Tail(items),
                IF item.isNull THEN sum
                ELSE IF item.hasCents THEN NumAdd(sum, item.amount_cents)
                ELSE IF item.hasAmount THEN NumAdd(sum, RoundCents(item.amount_milli))
                ELSE sum)

totalAmountCents(items) == ReduceItems(items, 0)

\* The total check with < for <=.
TotalRejectedNegativeOnly(total) == total < 0

\* if (totalAmountCents <= 0) -> 400
TotalRejected(total) == total <= 0

\* An item as JSON.stringify writes it and JSON.parse reads it back: a
\* non-finite amount becomes null, which is no number.
JsonItem(item) ==
    [item EXCEPT
        !.hasCents = item.hasCents /\ item.amount_cents \notin NonFinite,
        !.amount_cents = JsonNumber(item.amount_cents),
        !.hasAmount = item.hasAmount /\ item.amount_milli \notin NonFinite,
        !.amount_milli = JsonNumber(item.amount_milli)]

JsonItems(items) == [i \in 1..Len(items) |-> JsonItem(items[i])]

createOrderId(uuid) == "ord-" \o ToString(uuid)

\* POST /create-order: the status, the message and the registry written.
\* hasItems is Array.isArray(items).
Ord_CreateOrderResult(reg, appName, email, hasItems, items, billing_mode, now, uuid) ==
    LET total == totalAmountCents(items)
        order == [order_id |-> createOrderId(uuid),
                  app |-> OrStr(appName, "generic"),
                  email |-> email,
                  items |-> JsonItems(items),
                  billing_mode |-> OrStr(billing_mode, "one_time"),
                  total_amount_cents |-> JsonNumber(total),
                  status |-> "pending_payment",
                  created_at |-> now,
                  updated_at |-> 0,
                  stripe_session_id |-> "",
                  stripe_subscription_id |-> "",
                  soulmark |-> ""]
    IN IF email = "" \/ ~hasItems \/ Len(items) = 0
       THEN [status |-> 400, error |-> "EmptyOrder", registry |-> reg]
       ELSE IF TotalRejected(total)
       THEN [status |-> 400, error |-> "InvalidTotal", registry |-> reg]
       ELSE [status |-> 200, error |-> "",
             registry |-> [reg EXCEPT !.orders = Append(@, order)]]

\* Item lists sent to create-order.
ItemLists ==
    { <<>>,
      <<Item(TRUE, 999, FALSE, 0)>>,
      <<Item(TRUE, 0, FALSE, 0)>>,
      <<Item(FALSE, 0, TRUE, 4)>>,
      <<Item(TRUE, -500, FALSE, 0), Item(FALSE, 0, TRUE, 1000)>>,
      <<Item(TRUE, 500, TRUE, 9990), Item(FALSE, 0, TRUE, 25)>>,
      <<NullItem, Item(FALSE, 0, FALSE, 0)>>,
      <<Item(TRUE, PosInfinity, FALSE, 0)>>,
      <<Item(TRUE, PosInfinity, FALSE, 0), Item(FALSE, 0, TRUE, NegInfinity)>>,
      <<Item(TRUE, NegInfinity, FALSE, 0), Item(TRUE, 999, FALSE, 0)>> }

CreateOrderInputs ==
    {<<"b@y.com", TRUE, items>> : items \in ItemLists}
    \cup {<<"", TRUE, <<Item(TRUE, 999, FALSE, 0)>> >>,
          <<"b@y.com", FALSE, <<>> >>}

Ord_CreateOrderStep(in) ==
        LET r == Ord_CreateOrderResult(readRegistry, "LawAidAI", in[1], in[2], in[3],
                                       "", clock, nonce.order + 1)
        IN /\ r.status = 200 => Len(registry.orders) < MaxOrders
           /\ registry' = r.registry
           /\ nonce' = IF r.status = 200 THEN [nonce EXCEPT !.order = @ + 1] ELSE nonce
           /\ resp' = [op |-> "create-order", status |-> r.status, error |-> r.error]
           /\ NoteMarks
           /\ UNCHANGED <<sessions, inflight, clock, overlapped, backups>>

Ord_CreateOrder == \E in \in CreateOrderInputs : Ord_CreateOrderStep(in)

\* writeRegistry(data): the file after the call.  fs.writeFileSync may throw
\* (disk full, no permission); the catch logs the error and returns.
writeRegistry(current, data, written) == IF written THEN data ELSE current

\* POST /create-order of an acceptable body when fs.writeFileSync throws
\* inside writeRegistry.
Ord_CreateOrderWriteFailsStep(in) ==
    LET r == Ord_CreateOrderResult(readRegistry, "LawAidAI", in[1], in[2], in[3],
                                   "", clock, nonce.order + 1)
    IN /\ r.status = 200
       /\ nonce.order < Len(registry.orders) + MaxWriteFailures
       /\ registry' = writeRegistry(registry, r.registry, FALSE)
       /\ nonce' = [nonce EXCEPT !.order = @ + 1]
       /\ resp' = [op |-> "create-order", status |-> r.status, error |-> r.error]
       /\ NoteMarks
       /\ UNCHANGED <<sessions, inflight, clock, overlapped, backups>>

Ord_CreateOrderWriteFails ==
    \E in \in CreateOrderInputs : Ord_CreateOrderWriteFailsStep(in)

\* The paid test against a status the code never writes.
StatusIsSettled(order) == order.status = "settled"

\* if (order.status === "paid")
AlreadyPaid(order) == order.status = "paid"

\* The order ids a create-checkout-session-from-order body may carry: those
\* of the registry, none, and one of no order.
OrderIdInputs ==
    {registry.orders[i].order_id : i \in 1..Len(registry.orders)} \cup {"", "ord-unknown"}

\* POST /create-checkout-session-from-order up to its await of
\* stripe.checkout.sessions.create: the checks, made on the registry read here.
Ord_CheckoutFromOrderBeginStep(order_id) ==
        LET reg == readRegistry
            oi == FindIdx(reg.orders, LAMBDA o : o.order_id = order_id)
            reject(st, err) ==
                /\ resp' = [op |-> "checkout-from-order", status |-> st, error |-> err]
                /\ UNCHANGED inflight
        IN /\ IF order_id = "" THEN reject(400, "MissingOrderId")
              ELSE IF oi = 0 THEN reject(404, "OrderNotFound")
              ELSE IF AlreadyPaid(reg.orders[oi]) THEN reject(400, "AlreadyPaid")
              ELSE IF reg.orders[oi].total_amount_cents <= 0 THEN reject(400, "InvalidTotal")
              ELSE /\ Len(inflight) < MaxInflight
                   /\ inflight' = Append(inflight,
                          [op |-> "checkout-from-order", order_id |-> order_id,
                           registry |-> reg])
                   /\ UNCHANGED resp
           /\ UNCHANGED <<registry, sessions, clock, nonce, overlapped, firstMark, backups>>

Ord_CheckoutFromOrderBegin ==
    \E order_id \in OrderIdInputs : Ord_CheckoutFromOrderBeginStep(order_id)

\* order.stripe_session_id = session.id
StoreSessionId(order, session_id) == [order EXCEPT !.stripe_session_id = session_id]

\* ... from the processor's answer on: the session id is stored on the order of
\* the registry object read before the await, and that object is written.
Ord_CheckoutFromOrderCompleteStep(k) ==
        LET rq == inflight[k]
            reg == rq.registry
            oi == FindIdx(reg.orders, LAMBDA o : o.order_id = rq.order_id)
            order == reg.orders[oi]
            session_id == SessionId(Len(sessions) + 1)
        IN /\ rq.op = "checkout-from-order"
           /\ Len(sessions) < MaxSessions
           /\ sessions' = Append(sessions,
                  [payment_status |-> "unpaid", email |-> order.email, name |-> "",
                   amount_total |-> order.total_amount_cents,
                   order_id |-> order.order_id])
           /\ registry' = [reg EXCEPT !.orders[oi] = StoreSessionId(order, session_id)]
           /\ inflight' = RemoveAt(inflight, k)
           /\ resp' = [op |-> "checkout-from-order", status |-> 200, error |-> ""]
           /\ NoteMarks
           /\ UNCHANGED <<clock, nonce, overlapped, backups>>

Ord_CheckoutFromOrderComplete ==
    \E k \in 1..Len(inflight) : Ord_CheckoutFromOrderCompleteStep(k)

\* The failure path writing back the registry read before the await.
Ord_CheckoutFromOrderFailWritesStep(k) ==
    /\ inflight[k].op = "checkout-from-order"
    /\ inflight' = RemoveAt(inflight, k)
    /\ resp' = [op |-> "checkout-from-order", status |-> 500, error |-> "Upstream"]
    /\ registry' = inflight[k].registry
    /\ NoteMarks
    /\ UNCHANGED <<sessions, clock, nonce, overlapped, backups>>

\* ... when stripe.checkout.sessions.create rejects: caught, 500, nothing written.
Ord_CheckoutFromOrderFailStep(k) ==
    /\ inflight[k].op = "checkout-from-order"
    /\ inflight' = RemoveAt(inflight, k)
    /\ resp' = [op |-> "checkout-from-order", status |-> 500, error |-> "Upstream"]
    /\ UNCHANGED <<registry, sessions, clock, nonce, overlapped, firstMark, backups>>

Ord_CheckoutFromOrderFail ==
    \E k \in 1..Len(inflight) : Ord_CheckoutFromOrderFailStep(k)

\* GET /verify-donation/:id up to its await of stripe.checkout.sessions.retrieve
Ord_VerifyBegin ==
    \E id \in SessionIds :
        /\ Len(inflight) < MaxInflight
        /\ inflight' = Append(inflight, [op |-> "verify", id |-> id])
        /\ NoteSameSessionOverlap(id)
        /\ UNCHANGED <<registry, sessions, clock, nonce, resp, firstMark, backups>>

\* The donation record minted for a session that has none.
Ord_NewDonation(id, s, now, n) ==
    LET email == OrStr(s.email, "unknown@example.com")
    IN [id |-> id, name |-> OrStr(s.name, "Donor"), email |-> email,
        amount |-> s.amount_total, timestamp |-> now,
        soulmark |-> MintSoulmark(email, now, n),
        username_created |-> FALSE, identity_username |-> "",
        order_id |-> s.order_id]

\* "Backfill any missing fields on older entries"
Ord_Backfill(d, s, now, n) ==
    LET email == OrStr(s.email, "unknown@example.com")
    IN [d EXCEPT !.name = OrStr(OrStr(d.name, s.name), "Donor"),
                 !.email = OrStr(d.email, email),
                 !.amount = OrNum(d.amount, s.amount_total),
                 !.timestamp = OrNum(d.timestamp, now),
                 !.soulmark = OrStr(d.soulmark, MintSoulmark(email, now, n)),
                 !.order_id = IF s.order_id # "" /\ d.order_id = ""
                              THEN s.order_id ELSE d.order_id]

\* "If there is a linked order, mark it paid and attach the SoulMark"
SettleOrder(order, donation, now) ==
    [order EXCEPT !.status = "paid",
                  !.soulmark = OrStr(order.soulmark, donation.soulmark),
                  !.updated_at = now]

\* The write without the lookup of the session's record: a record is appended
\* whether or not the session has one.
Ord_VerifyWriteAppending(reg, id, s, now, n) ==
    [reg EXCEPT !.donations = Append(@, Ord_NewDonation(id, s, now, n))]

\* The registry written by a verify-donation of a paid session s with id `id`.
Ord_VerifyWrite(reg, id, s, now, n) ==
    LET di == FindIdx(reg.donations, LAMBDA d : d.id = id)
        oi == IF s.order_id = "" THEN 0
              ELSE FindIdx(reg.orders, LAMBDA o : o.order_id = s.order_id)
        donation == IF di = 0 THEN Ord_NewDonation(id, s, now, n)
                    ELSE Ord_Backfill(reg.donations[di], s, now, n)
        donations == IF di = 0 THEN Append(reg.donations, donation)
                     ELSE [reg.donations EXCEPT ![di] = donation]
        orders == IF oi = 0 THEN reg.orders
                  ELSE [reg.orders EXCEPT ![oi] = SettleOrder(reg.orders[oi], donation, now)]
    IN [reg EXCEPT !.donations = donations, !.orders = orders]

\* Whether that verify-donation draws a randomUUID (mints a mark).
Ord_VerifyMints(reg, id) ==
    LET di == FindIdx(reg.donations, LAMBDA d : d.id = id)
    IN di = 0 \/ reg.donations[di].soulmark = ""

\* GET /verify-donation/:id from the processor's answer to the response.  For
\* an id it does not know the processor answers with no session, or the call
\* rejects (Ord_VerifyFail).
Ord_VerifyCompleteStep(k) ==
        LET rq == inflight[k]
            si == SessionIdx(rq.id)
        IN /\ rq.op = "verify"
           /\ inflight' = RemoveAt(inflight, k)
           /\ IF UnpaidOrMissing(si)
              THEN \* !session || session.payment_status !== "paid"
                   /\ resp' = [op |-> "verify", status |-> 200, verified |-> FALSE]
                   /\ UNCHANGED <<registry, nonce, firstMark>>
              ELSE /\ registry' = Ord_VerifyWrite(readRegistry, rq.id, sessions[si],
                                                  clock, nonce.mark + 1)
                   /\ nonce' = IF Ord_VerifyMints(readRegistry, rq.id)
                               THEN [nonce EXCEPT !.mark = @ + 1] ELSE nonce
                   /\ resp' = [op |-> "verify", status |-> 200, verified |-> TRUE]
                   /\ NoteMarks
           /\ UNCHANGED <<sessions, clock, overlapped, backups>>

Ord_VerifyComplete == \E k \in 1..Len(inflight) : Ord_VerifyCompleteStep(k)

\* ... when stripe.checkout.sessions.retrieve rejects: caught, 500, nothing
\* read or written.
Ord_VerifyFailStep(k) ==
    /\ inflight[k].op = "verify"
    /\ inflight' = RemoveAt(inflight, k)
    /\ resp' = [op |-> "verify", status |-> 500]
    /\ UNCHANGED <<registry, sessions, clock, nonce, overlapped, firstMark, backups>>

Ord_VerifyFail == \E k \in 1..Len(inflight) : Ord_VerifyFailStep(k)

\* POST /register: "Username conflict check"
Ord_Conflict(identities, canonicalUsername) ==
    \E i \in 1..Len(identities) : toLowerCase(identities[i].username) = canonicalUsername

\* POST /register: the status, the message and the registry written.
Ord_RegisterResult(reg, email, username, soulmark, now, uuid) ==
    LET isDonorSignup == soulmark # "" /\ soulmark # "null"
        canonicalUsername == toLowerCase(username)
        canonicalEmail == toLowerCase(email)
        newIdentity ==
            [identity_id |-> "ias-" \o ToString(uuid), username |-> canonicalUsername,
             email |-> canonicalEmail,
             soulmarks |-> IF isDonorSignup THEN <<soulmark>> ELSE <<>>,
             registered_since |-> now,
             displayIdentity |-> "username", showDonationAmount |-> FALSE]
    IN IF email = "" \/ username = ""
       THEN [status |-> 400, error |-> "MissingField", registry |-> reg]
       ELSE IF Ord_Conflict(reg.identities, canonicalUsername)
       THEN [status |-> 409, error |-> "HandleTaken", registry |-> reg]
       ELSE [status |-> 200, error |-> "",
             registry |->
                [reg EXCEPT
                    !.identities = Append(@, newIdentity),
                    !.donations = IF isDonorSignup
                                  THEN StampDonations(@, canonicalEmail, canonicalUsername)
                                  ELSE @]]

RegisterInputs ==
    {<<e, u, m>> : e \in Emails, u \in Usernames, m \in KnownMarks \cup {""}}
    \cup {<<"", "zeta", "">>, <<"b@y.com", "", "">>, <<"b@y.com", "zeta", "null">>}

Ord_RegisterStep(in) ==
        LET r == Ord_RegisterResult(readRegistry, in[1], in[2], in[3], clock,
                                    nonce.identity + 1)
        IN /\ registry' = r.registry
           /\ nonce' = IF r.status = 200 THEN [nonce EXCEPT !.identity = @ + 1] ELSE nonce
           /\ resp' = [op |-> "register", status |-> r.status, error |-> r.error]
           /\ NoteMarks
           /\ UNCHANGED <<sessions, inflight, clock, overlapped, backups>>

Ord_Register == \E in \in RegisterInputs : Ord_RegisterStep(in)

NextOrders ==
    \/ Tick
    \/ Pay
    \/ Ord_CreateOrder
    \/ Ord_CheckoutFromOrderBegin
    \/ Ord_CheckoutFromOrderComplete
    \/ Ord_CheckoutFromOrderFail
    \/ Ord_VerifyBegin
    \/ Ord_VerifyComplete
    \/ Ord_VerifyFail

SpecOrders == Init /\ [][NextOrders]_vars

\* The order engine on a disk whose writes may fail.
NextOrdersFaulty ==
    \/ NextOrders
    \/ Ord_CreateOrderWriteFails

SpecOrdersFaulty == Init /\ [][NextOrdersFaulty]_vars

\* The same revision's ledger and identity registry (donation checkout,
\* verify-donation, check-username, register).
NextOrdersIdentity ==
    \/ Pay
    \/ CreateCheckoutSession
    \/ Ord_VerifyBegin
    \/ Ord_VerifyComplete
    \/ Ord_VerifyFail
    \/ CheckUsername
    \/ Ord_Register

SpecOrdersIdentity == Init /\ [][NextOrdersIdentity]_vars

---------------------------------------------------------------------------
\* Device-token revision.

\* ensureRegistry() of this revision: returns the parsed, normalised document
\* (rewritten as it is when it is well-formed).
Dev_ensureRegistry == registry

\* GET /verify-donation/:id up to its await: the document is read first.
Dev_VerifyBegin ==
    \E id \in SessionIds :
        /\ Len(inflight) < MaxInflight
        /\ inflight' = Append(inflight,
               [op |-> "verify", id |-> id, json |-> Dev_ensureRegistry])
        /\ NoteOverlap
        /\ UNCHANGED <<registry, sessions, clock, nonce, resp, firstMark, backups>>

\* The entry written for a paid session.
Dev_Entry(id, s, now, n) ==
    LET email == OrStr(s.email, "unknown")
    IN [id |-> id, email |-> email, name |-> OrStr(s.name, "Donor"),
        amount |-> s.amount_total, timestamp |-> now,
        soulmark |-> MintSoulmark(email, now, n)]

\* json.donations.push(entry)
Dev_RecordDonation(donations, entry) == Append(donations, entry)

\* ... from the processor's answer on: the entry is pushed onto the document
\* read before the await, and that document is written.
Dev_VerifyCompleteStep(k) ==
        LET rq == inflight[k]
            si == SessionIdx(rq.id)
        IN /\ rq.op = "verify"
           /\ inflight' = RemoveAt(inflight, k)
           /\ IF si = 0
              THEN /\ resp' = [op |-> "verify", status |-> 500]
                   /\ UNCHANGED <<registry, nonce, firstMark>>
              ELSE IF sessions[si].payment_status # "paid"
              THEN /\ resp' = [op |-> "verify", status |-> 200, verified |-> FALSE]
                   /\ UNCHANGED <<registry, nonce, firstMark>>
              ELSE /\ Len(rq.json.donations) < MaxDonations
                   /\ registry' =
                        [rq.json EXCEPT !.donations =
                            Dev_RecordDonation(@, Dev_Entry(rq.id, sessions[si], clock,
                                                            nonce.mark + 1))]
                   /\ nonce' = [nonce EXCEPT !.mark = @ + 1]
                   /\ resp' = [op |-> "verify", status |-> 200, verified |-> TRUE]
                   /\ NoteMarks
           /\ UNCHANGED <<sessions, clock, overlapped, backups>>

Dev_VerifyComplete == \E k \in 1..Len(inflight) : Dev_VerifyCompleteStep(k)

\* "always allow username update (alias evolution)"
Dev_UpdateUser(user, username, soulmark) ==
    [user EXCEPT !.soulmarks = IF soulmark # "" THEN PushIfNew(@, soulmark) ELSE @,
                 !.username = username]

\* POST /register: the status and the document written.
Dev_RegisterResult(json, username, email, soulmark, now, uuid) ==
    LET targetEmail == toLowerCase(email)
        ui == FindIdx(json.users,
                      LAMBDA u : u.email # "" /\ toLowerCase(u.email) = targetEmail)
        newUser == [username |-> username, email |-> email,
                    token |-> "tok-" \o ToString(uuid),
                    soulmarks |-> IF soulmark # "" THEN <<soulmark>> ELSE <<>>,
                    createdAt |-> now]
    IN IF username = "" \/ email = ""
       THEN [status |-> 400, registry |-> json]
       ELSE IF ui # 0
       THEN [status |-> 200,
             registry |-> [json EXCEPT !.users[ui] = Dev_UpdateUser(@, username, soulmark)]]
       ELSE [status |-> 200, registry |-> [json EXCEPT !.users = Append(@, newUser)]]

Dev_RegisterInputs ==
    {<<u, e, m>> : u \in Usernames, e \in Emails, m \in MarkInputs}
    \cup {<<"", "b@y.com", "">>, <<"zeta", "", "">>}

Dev_RegisterStep(in) ==
        LET r == Dev_RegisterResult(Dev_ensureRegistry, in[1], in[2], in[3], clock,
                                    nonce.identity + 1)
        IN /\ registry' = r.registry
           /\ nonce' = IF Len(r.registry.users) > Len(registry.users)
                       THEN [nonce EXCEPT !.identity = @ + 1] ELSE nonce
           /\ resp' = [op |-> "register", status |-> r.status]
           /\ NoteOverlap
           /\ NoteMarks
           /\ UNCHANGED <<sessions, inflight, clock, backups>>

Dev_Register == \E in \in Dev_RegisterInputs : Dev_RegisterStep(in)

\* The revision's ledger: donation checkout and verify-donation.
NextDevice ==
    \/ Pay
    \/ CreateCheckoutSession
    \/ Dev_VerifyBegin
    \/ Dev_VerifyComplete

SpecDevice == Init /\ [][NextDevice]_vars

\* The revision's user registry: register reads and writes users only.
NextDeviceUsers ==
    \/ Tick
    \/ Dev_Register

SpecDeviceUsers == Init /\ [][NextDeviceUsers]_vars


---------------------------------------------------------------------------
\* The registry file as a payload: ensureRegistry and readRegistry on whatever
\* registry.json holds.  In the specifications of this section registry is
\* the payload of the file: whether it exists, its text when the text is no
\* JSON, and otherwise the JSON value with its collections.

\* A collection of a stored object: absent, a value that is no array, or an
\* array with its elements.
Absent == [t |-> "absent", items |-> <<>>]
NotAList == [t |-> "string", items |-> <<>>]
List(items) == [t |-> "list", items |-> items]

Payload(kind, raw, donations, identities, orders, users) ==
    [kind |-> kind, raw |-> raw, donations |-> donations,
     identities |-> identities, orders |-> orders, users |-> users]

\* A JSON object with the four collections.
Object(donations, identities, orders, users) ==
    Payload("object", "", donations, identities, orders, users)

\* No file; an empty file; text that is no JSON; JSON that is no object.
MissingFile == Payload("missing", "", Absent, Absent, Absent, Absent)
EmptyFile == Payload("text", "", Absent, Absent, Absent, Absent)
CorruptFile == Payload("text", "{oops", Absent, Absent, Absent, Absent)
JsonNull == Payload("null", "", Absent, Absent, Absent, Absent)
JsonNumeral == Payload("number", "", Absent, Absent, Absent, Absent)
JsonString == Payload("string", "", Absent, Absent, Absent, Absent)
JsonArray == Payload("array", "", Absent, Absent, Absent, Absent)

CollectionValues == {Absent, NotAList, List(<<>>), List(<<"x">>)}

StoredPayloads ==
    {MissingFile, EmptyFile, CorruptFile, JsonNull, JsonNumeral, JsonString, JsonArray}
    \cup {Object(d, i, o, u) : d \in CollectionValues, i \in CollectionValues,
                               o \in CollectionValues,
                               u \in {Absent, NotAList, List(<<"x">>)}}

\* Text that is not empty and that JSON.parse rejects.
Unparsable(file) == file.kind = "text" /\ file.raw # ""

\* The repair that leaves the collection as it is.
KeepCollection(c) == c

\* if (!Array.isArray(parsed.c)) parsed.c = []
RepairCollection(c) == IF c.t = "list" THEN c ELSE List(<<>>)

\* The first document without its orders.
InitialDocumentWithoutOrders == Object(List(<<>>), List(<<>>), Absent, Absent)

\* const initial = { donations: [], identities: [], orders: [] }
InitialDocument == Object(List(<<>>), List(<<>>), List(<<>>), Absent)

\* fs.writeFileSync(registryFile + ".backup-" + Date.now(), raw): a file of
\* that name is replaced.
WriteBackup(files, now, raw) ==
    {b \in files : b.at # now} \cup {[at |-> now, content |-> raw]}

\* ensureRegistry() of the orders revision: the file and the backups it
\* leaves.  The module is an ES module (strict mode): reading a property of
\* null and assigning one to a number or a string throw a TypeError, which the
\* outer catch logs; on an array the assignments succeed and JSON.stringify
\* writes the array without them.
Ord_ensureRegistry(file, files, now) ==
    CASE file.kind = "missing" ->
            [file |-> InitialDocument, backups |-> files]
      [] Unparsable(file) ->
            [file |-> Object(List(<<>>), List(<<>>), List(<<>>), Absent),
             backups |-> WriteBackup(files, now, file)]
      [] file.kind = "text" /\ file.raw = "" ->
            \* raw || "{}"
            [file |-> Object(List(<<>>), List(<<>>), List(<<>>), Absent), backups |-> files]
      [] file.kind \in {"null", "number", "string", "array"} ->
            [file |-> file, backups |-> files]
      [] OTHER ->
            [file |-> [file EXCEPT !.donations = RepairCollection(@),
                                   !.identities = RepairCollection(@),
                                   !.orders = RepairCollection(@)],
             backups |-> files]

\* readRegistry() of the orders revision: ensureRegistry(), then the file
\* parsed; the empty document when it cannot be parsed.
Ord_readRegistry(file, files, now) ==
    LET e == Ord_ensureRegistry(file, files, now)
    IN [file |-> e.file, backups |-> e.backups,
        returned |-> IF e.file.kind \in {"missing", "text"}
                     THEN Object(List(<<>>), List(<<>>), List(<<>>), Absent)
                     ELSE e.file]

\* A call of readRegistry().
Ord_ReadRegistry ==
    LET r == Ord_readRegistry(registry, backups, clock)
    IN /\ registry' = r.file
       /\ backups' = r.backups
       /\ resp' = [op |-> "readRegistry", stored |-> registry, returned |-> r.returned]
       /\ UNCHANGED <<sessions, inflight, clock, nonce, overlapped, firstMark>>

\* ensureRegistry() of the device-token revision: the file it leaves and the
\* document it returns.  Whatever throws (JSON.parse, a property of null, an
\* assignment to a number or a string) ends in the catch, which writes the
\* empty document.
Dev_ensureRegistryFile(file) ==
    LET reset == Object(List(<<>>), Absent, Absent, List(<<>>))
        normal == [file EXCEPT !.donations = RepairCollection(@),
                               !.users = RepairCollection(@)]
    IN CASE file.kind = "missing" -> [file |-> reset, returned |-> reset]
         [] file.kind \in {"text", "null", "number", "string"} ->
                [file |-> reset, returned |-> reset]
         [] file.kind = "array" -> [file |-> file, returned |-> normal]
         [] OTHER -> [file |-> normal, returned |-> normal]

\* A call of ensureRegistry() of the device-token revision.
Dev_EnsureRegistry ==
    LET r == Dev_ensureRegistryFile(registry)
    IN /\ registry' = r.file
       /\ resp' = [op |-> "ensureRegistry", stored |-> registry, returned |-> r.returned]
       /\ UNCHANGED <<sessions, inflight, clock, nonce, overlapped, firstMark, backups>>

\* The file holds any payload when the server first loads it.
StorageInit ==
    /\ registry \in StoredPayloads
    /\ sessions = <<>>
    /\ inflight = <<>>
    /\ clock = 1
    /\ nonce = [mark |-> 0, identity |-> 0, order |-> 0]
    /\ resp = [op |-> "none"]
    /\ overlapped = FALSE
    /\ firstMark = [id \in MarkKeys |-> ""]
    /\ backups = {}

NextOrdersStorage ==
    \/ Tick
    \/ Ord_ReadRegistry

SpecOrdersStorage == StorageInit /\ [][NextOrdersStorage]_vars

NextDeviceStorage ==
    \/ Tick
    \/ Dev_EnsureRegistry

SpecDeviceStorage == StorageInit /\ [][NextDeviceStorage]_vars

---------------------------------------------------------------------------
\* fix-donations.js: the repair of donations.json.  In the specification of
\* this section registry is the parsed donations.json, a list of donation
\* records, and resp carries the list written to donations_fixed.json.
\* The script is CommonJS (require) without "use strict": an assignment to a
\* property of a primitive value is dropped silently.

\* A value of a visibility flag: the two booleans, absent, or of another type.
FlagValues == {"true", "false", "undefined", "string"}

\* The visibility of a record: absent (or falsy), an object with its three
\* flags, or a truthy value that is no object (a string, a number, true).
NoVisibility ==
    [kind |-> "absent", showName |-> "undefined", showUsername |-> "undefined",
     showAmount |-> "undefined"]
PrimitiveVisibility ==
    [kind |-> "primitive", showName |-> "undefined", showUsername |-> "undefined",
     showAmount |-> "undefined"]
VisibilityObject(showName, showUsername, showAmount) ==
    [kind |-> "object", showName |-> showName, showUsername |-> showUsername,
     showAmount |-> showAmount]

VisibilityInputs ==
    {NoVisibility, PrimitiveVisibility}
    \cup {VisibilityObject(n, u, a) : n \in FlagValues, u \in FlagValues, a \in FlagValues}

\* The records of a donations.json: username, email and name are strings, ""
\* when absent.
DonationInputs ==
    [visibility : VisibilityInputs,
     username : {"", "  ", "nova"},
     email : {"", "noatsign", "b@y.com", "J!o@x.com"},
     name : {"", "Ann"}]

\* String.prototype.trim on the strings of the universe.
trim(str) == IF str = "  " THEN "" ELSE str

\* email.includes("@")
IncludesAt(email) == email \in {"b@y.com", "J!o@x.com"}

\* email.split("@")[0].replace(/[^a-z0-9._-]/gi, "")
LocalPart(email) ==
    CASE email = "b@y.com" -> "b"
      [] email = "J!o@x.com" -> "Jo"
      [] OTHER -> email

\* Math.floor(Math.random() * 999999), two of its values
RandomValues == {0, 424242}

\* if (typeof repaired.visibility.flag !== "boolean") repaired.visibility.flag = true
EnsureFlag(visibility, flag) ==
    IF visibility[flag] \in {"true", "false"} THEN visibility
    ELSE IF visibility.kind = "object" THEN [visibility EXCEPT ![flag] = "true"]
    ELSE visibility

\* "Enforce Anonymous rule"
EnforceAnonymousRule(visibility) ==
    IF visibility.showName # "true" /\ visibility.showUsername # "true"
    THEN IF visibility.kind = "object" THEN [visibility EXCEPT !.showAmount = "true"]
         ELSE visibility
    ELSE visibility

\* "Fix missing username"
FixUsername(d, random) ==
    IF d.username = "" \/ trim(d.username) = ""
    THEN IF d.email # "" /\ IncludesAt(d.email)
         THEN LocalPart(d.email) \o "@iascendai"
         ELSE "user" \o ToString(random) \o "@iascendai"
    ELSE d.username

\* The callback of donations.map: the repaired copy of d.
Repair(d, random) ==
    LET created == IF d.visibility.kind = "absent"
                   THEN VisibilityObject("true", "true", "true")
                   ELSE d.visibility
        ensured == EnsureFlag(EnsureFlag(EnsureFlag(created, "showName"),
                                         "showUsername"), "showAmount")
    IN [visibility |-> EnforceAnonymousRule(ensured),
        username |-> FixUsername(d, random),
        email |-> d.email,
        name |-> IF d.name = "" \/ trim(d.name) = "" THEN "Anonymous" ELSE d.name]

\* node fix-donations.js: donations.json is read, every record repaired and
\* the list written to donations_fixed.json.
FixDonations ==
    \E random \in RandomValues :
        /\ resp' = [op |-> "fix-donations",
                    fixed |-> [i \in 1..Len(registry) |-> Repair(registry[i], random)]]
        /\ UNCHANGED <<registry, sessions, inflight, clock, nonce, overlapped, firstMark,
                       backups>>

\* donations.json holds no record or one record of any shape.
FixInit ==
    /\ registry \in {<<>>} \cup {<<d>> : d \in DonationInputs}
    /\ sessions = <<>>
    /\ inflight = <<>>
    /\ clock = 1
    /\ nonce = [mark |-> 0, identity |-> 0, order |-> 0]
    /\ resp = [op |-> "none"]
    /\ overlapped = FALSE
    /\ firstMark = [id \in MarkKeys |-> ""]
    /\ backups = {}

NextFixDonations == FixDonations

SpecFixDonations == FixInit /\ [][NextFixDonations]_vars

---------------------------------------------------------------------------
\* Registries written by older revisions: a donation record may lack its
\* name, email, amount, timestamp or mark ("Normalize older records").

LegacyMark == "sm:legacy"

\* The records an older revision may have left for session cs_1.
LegacyDonations ==
    {[id |-> SessionId(1), name |-> n, email |-> e, amount |-> a, timestamp |-> t,
      soulmark |-> m, username_created |-> FALSE, identity_username |-> ""] :
        n \in {"", "Ann"}, e \in {"", "b@y.com"}, a \in {0, 2500}, t \in {0, 1},
        m \in {"", LegacyMark}}

\* The registry holds one such record and the processor the paid session it
\* was made for.
LegacyInit ==
    /\ \E d \in LegacyDonations : registry = [EmptyRegistry EXCEPT !.donations = <<d>>]
    /\ \E n \in {"", "Ann"} :
          sessions = <<[payment_status |-> "paid", email |-> "b@y.com", name |-> n,
                        amount_total |-> 2500, order_id |-> ""]>>
    /\ inflight = <<>>
    /\ clock = 1
    /\ nonce = [mark |-> 0, identity |-> 0, order |-> 0]
    /\ resp = [op |-> "none"]
    /\ overlapped = FALSE
    /\ firstMark = [id \in MarkKeys |-> IF id = SessionId(1) THEN MarkOf(registry, id) ELSE ""]
    /\ backups = {}

NextPhase1Legacy ==
    \/ Tick
    \/ P1_VerifyBegin
    \/ P1_VerifyComplete
    \/ P1_VerifyFail

SpecPhase1Legacy == LegacyInit /\ [][NextPhase1Legacy]_vars

---------------------------------------------------------------------------
\* The disposable-email gate of the phase-1 revision on a ledger with one
\* verified donation, for payer emails on and around the deny-list.

GateEmails ==
    {"t@mailinator.com", "t@MAILINATOR.COM", "t@sub.mailinator.com",
     "t@notmailinator.com", "t@mailinator.com.x.com", "b@y.com"}

\* The state after the first donation of a payer has been paid and verified.
GateInit ==
    /\ \E e \in GateEmails :
          /\ sessions = <<[payment_status |-> "paid", email |-> e, name |-> "Ann",
                           amount_total |-> 2500, order_id |-> ""]>>
          /\ registry = [EmptyRegistry EXCEPT
                            !.donations = <<P1_NewDonation(SessionId(1), sessions[1], 1, 1)>>]
    /\ inflight = <<>>
    /\ clock = 1
    /\ nonce = [mark |-> 1, identity |-> 0, order |-> 0]
    /\ resp = [op |-> "verify", status |-> 200, verified |-> TRUE]
    /\ overlapped = FALSE
    /\ firstMark = [id \in MarkKeys |-> IF id = SessionId(1) THEN MarkOf(registry, id) ELSE ""]
    /\ backups = {}

\* Request bodies of POST /register-username with these emails.
GateRegisterInputs ==
    {<<e, u, m, dv>> : e \in GateEmails, u \in Usernames, m \in MarkInputs \ {""},
                       dv \in DeviceIds}

P1_RegisterUsernameGate == \E in \in GateRegisterInputs : P1_RegisterUsernameStep(in)

NextPhase1Gate ==
    \/ Tick
    \/ CheckUsername
    \/ P1_RegisterUsernameGate

SpecPhase1Gate == GateInit /\ [][NextPhase1Gate]_vars

---------------------------------------------------------------------------
\* Properties.

\* C1: after non-overlapping operations the registry holds at most one
\* donation record per processor session id, however often the same paid
\* session is confirmed.
C1_OneRecordPerSession ==
    ~overlapped =>
        \A i, j \in 1..Len(registry.donations) :
            registry.donations[i].id = registry.donations[j].id => i = j

\* Some donation record carries the mark soulmark with an email equal to the
\* presented email after lowercasing.
MarkBelongsTo(soulmark, email) ==
    \E i \in 1..Len(registry.donations) :
        /\ registry.donations[i].soulmark = soulmark
        /\ toLowerCase(registry.donations[i].email) = toLowerCase(email)

\* C2: a registration that presents a mark of the ledger with an email other
\* than the one the mark was minted for is rejected and creates or changes no
\* identity.
C2_MarkNotOwnedRejected ==
    [][\A in \in RegisterInputs :
          (/\ Ord_RegisterStep(in)
           /\ in[1] # "" /\ in[2] # ""
           /\ in[3] \in KnownMarks
           /\ ~MarkBelongsTo(in[3], in[1]))
          => (/\ resp'.status # 200
              /\ registry'.identities = registry.identities)]_vars

\* C3: a user whose handle is non-empty keeps that handle in the next state.
C3_HandleFrozen ==
    [][\A i \in 1..Len(registry.users) :
          registry.users[i].username # ""
          => (/\ i <= Len(registry'.users)
              /\ registry'.users[i].username = registry.users[i].username)]_vars

\* C4: no two identities have handles that are equal after lowercasing.
C4_UniqueHandles ==
    \A i, j \in 1..Len(registry.identities) :
        toLowerCase(registry.identities[i].username)
            = toLowerCase(registry.identities[j].username) => i = j

\* Two identities exist and a claim of a handle one of them owns, made for
\* another email, has just been refused.
C4_Witness ==
    /\ Len(registry.identities) = 2
    /\ resp.op = "register-username"
    /\ resp.error = "HandleTaken"

\* C5: no two identities have emails that are equal after lowercasing.
C5_UniqueEmails ==
    \A i, j \in 1..Len(registry.identities) :
        toLowerCase(registry.identities[i].email)
            = toLowerCase(registry.identities[j].email) => i = j

\* C6: the record of a session carries the mark the session's record carried
\* first, in every later state.
C6_MarkSetOnce ==
    \A i \in 1..Len(registry.donations) :
        registry.donations[i].id \in SessionIds
        => firstMark[registry.donations[i].id] = registry.donations[i].soulmark

\* C7: an order that is paid is still paid in the next state, in every
\* interleaving of the handlers.
C7_PaidStaysPaid ==
    [][\A i \in 1..Len(registry.orders) :
          registry.orders[i].status = "paid"
          => (/\ i <= Len(registry'.orders)
              /\ registry'.orders[i].status = "paid")]_vars

\* The order a verify-donation of inflight[k] settles: the index in
\* registry.orders of the order its paid session refers to, 0 when none.
LinkedOrderIdx(k) ==
    LET si == SessionIdx(inflight[k].id)
    IN IF inflight[k].op # "verify" \/ si = 0 THEN 0
       ELSE IF sessions[si].payment_status # "paid" \/ sessions[si].order_id = "" THEN 0
       ELSE FindIdx(registry.orders, LAMBDA o : o.order_id = sessions[si].order_id)

\* C8: confirming a paid session whose order is already paid leaves the
\* order's status, mark and updated_at as they were.
C8_SettledOrderUntouched ==
    [][\A k \in 1..Len(inflight) :
          (/\ Ord_VerifyCompleteStep(k)
           /\ LinkedOrderIdx(k) # 0
           /\ registry.orders[LinkedOrderIdx(k)].status = "paid")
          => LET before == registry.orders[LinkedOrderIdx(k)]
                 after == registry'.orders[LinkedOrderIdx(k)]
             IN /\ after.status = before.status
                /\ after.soulmark = before.soulmark
                /\ after.updated_at = before.updated_at]_vars

\* The index in registry.orders of the order the checkout of inflight[k] is
\* for, 0 when none.
AttachedOrderIdx(k) ==
    IF inflight[k].op # "checkout-from-order" THEN 0
    ELSE FindIdx(registry.orders, LAMBDA o : o.order_id = inflight[k].order_id)

\* C9: a checkout created for a pending order that already stores a session
\* reference does not replace the stored reference.
C9_SessionRefSetOnce ==
    [][\A k \in 1..Len(inflight) :
          (/\ Ord_CheckoutFromOrderCompleteStep(k)
           /\ AttachedOrderIdx(k) # 0
           /\ registry.orders[AttachedOrderIdx(k)].status = "pending_payment"
           /\ registry.orders[AttachedOrderIdx(k)].stripe_session_id # "")
          => registry'.orders[AttachedOrderIdx(k)].stripe_session_id
                = registry.orders[AttachedOrderIdx(k)].stripe_session_id]_vars

\* C10: create-order with no item list, an empty one, or items whose total is
\* zero or negative answers 400 and leaves the orders collection unchanged.
C10_InvalidOrderRejected ==
    [][\A in \in CreateOrderInputs :
          (/\ Ord_CreateOrderStep(in)
           /\ (~in[2] \/ Len(in[3]) = 0 \/ totalAmountCents(in[3]) <= 0))
          => (/\ resp'.status = 400
              /\ resp'.error \in {"EmptyOrder", "InvalidTotal"}
              /\ registry'.orders = registry.orders)]_vars

\* An order is on file and a create-order whose items total zero or less has
\* just been refused.
C10_Witness ==
    /\ Len(registry.orders) = 1
    /\ resp.op = "create-order"
    /\ resp.error = "InvalidTotal"

\* The order a create-order call has just stored.
NewOrder == registry'.orders[Len(registry'.orders)]

\* Whether every amount the items carry is a finite number.
FiniteItems(items) ==
    \A i \in 1..Len(items) :
        \/ items[i].isNull
        \/ /\ items[i].hasCents => items[i].amount_cents \notin NonFinite
           /\ items[i].hasAmount => items[i].amount_milli \notin NonFinite

\* Ten times the sum the claim gives, in thousandths of a major unit: the
\* minor-unit amount of an item that has one, else its major-unit amount x 100,
\* else 0.
RECURSIVE ExactSumMilli(_)
ExactSumMilli(items) ==
    IF items = <<>> THEN 0
    ELSE LET item == Head(items)
         IN (IF item.isNull THEN 0
             ELSE IF item.hasCents THEN 10 * item.amount_cents
             ELSE IF item.hasAmount THEN item.amount_milli
             ELSE 0) + ExactSumMilli(Tail(items))

\* C11: for every accepted item list the stored total is the sum of the
\* minor-unit amounts plus the sum of major-unit amount x 100 of the items
\* that have only a major-unit amount.
C11_TotalIsExactSum ==
    [][\A in \in CreateOrderInputs :
          (Ord_CreateOrderStep(in) /\ resp'.status = 200)
          => IF FiniteItems(in[3])
             THEN 10 * NewOrder.total_amount_cents = ExactSumMilli(in[3])
             ELSE NewOrder.total_amount_cents = totalAmountCents(in[3])]_vars

\* C12: every order on file has a total greater than zero, is created pending
\* with no session reference and no mark, and keeps its total.
C12_OrderTotalPositiveAndFixed ==
    /\ [](\A i \in 1..Len(registry.orders) : registry.orders[i].total_amount_cents > 0)
    /\ [][/\ \A in \in CreateOrderInputs :
                (Ord_CreateOrderStep(in) /\ resp'.status = 200)
                => (/\ NewOrder.status = "pending_payment"
                    /\ NewOrder.stripe_session_id = ""
                    /\ NewOrder.soulmark = "")
          /\ \A i \in 1..Len(registry.orders) :
                i <= Len(registry'.orders)
                => registry'.orders[i].total_amount_cents
                      = registry.orders[i].total_amount_cents]_vars

\* The identity of the email has a handle, and it is not `handle`.
BoundToOtherHandle(email, handle) ==
    \E i \in 1..Len(registry.identities) :
        /\ toLowerCase(registry.identities[i].email) = toLowerCase(email)
        /\ registry.identities[i].username # ""
        /\ toLowerCase(registry.identities[i].username) # toLowerCase(handle)

\* An identity of another email has the handle, in any letter case.
OwnedByOtherEmail(email, handle) ==
    \E i \in 1..Len(registry.identities) :
        /\ toLowerCase(registry.identities[i].email) # toLowerCase(email)
        /\ toLowerCase(registry.identities[i].username) = toLowerCase(handle)

\* A register-username body with every field present, a supported email and
\* a mark the email owns.
WellFormedClaim(in) ==
    /\ in[1] # "" /\ in[2] # "" /\ in[3] # ""
    /\ ~isDisposableEmail(in[1])
    /\ MarkBelongsTo(in[3], in[1])

\* What register-username answers to the body `in` in the current state.
P1_Answer(in) ==
    P1_RegisterUsernameResult(readRegistry, in[1], in[2], in[3], in[4],
                              clock, nonce.identity + 1)

C14_RepeatedRegisterConverges ==
    [][\A in \in RegisterInputs :
          (Ord_RegisterStep(in) /\ resp'.status = 200)
          => LET again == Ord_RegisterResult(registry', in[1], in[2], in[3],
                                             clock', nonce'.identity + 1)
             IN /\ again.status = 200
                /\ again.registry = registry']_vars

\* C15: a verify-donation whose session the processor reports missing or not
\* paid answers with the negative result and leaves the registry as it was.
C15_UnpaidOrMissingIsNegative ==
    [][\A k \in 1..Len(inflight) :
          (/\ Ord_VerifyCompleteStep(k)
           /\ \/ SessionIdx(inflight[k].id) = 0
              \/ sessions[SessionIdx(inflight[k].id)].payment_status # "paid")
          => (/\ resp'.status = 200
              /\ resp'.verified = FALSE
              /\ registry' = registry)]_vars

\* A donation is on file and a verification of a session that is missing or
\* not paid has just been answered with the negative result.
C15_Witness ==
    /\ resp.op = "verify"
    /\ resp.status = 200
    /\ ~resp.verified
    /\ Len(registry.donations) = 1

\* C16: when the processor call of create-checkout-session-from-order or of
\* verify-donation fails, the caller gets an error and the registry is left as
\* it was.
C16_UpstreamFailureLeavesRegistry ==
    [][\A k \in 1..Len(inflight) :
          (Ord_VerifyFailStep(k) \/ Ord_CheckoutFromOrderFailStep(k))
          => (/\ resp'.status = 500
              /\ registry' = registry)]_vars

\* An order is on file and a checkout for it has just failed upstream.
C16_Witness ==
    /\ resp.op = "checkout-from-order"
    /\ resp.status = 500
    /\ Len(registry.orders) = 1

\* C17: a create-order whose registry write fails does not report success.
C17_WriteFailureSurfaced ==
    [][\A in \in CreateOrderInputs :
          Ord_CreateOrderWriteFailsStep(in) => resp'.status # 200]_vars

\* A document whose donations, identities and orders are all lists.
StructurallyValid(doc) ==
    /\ doc.kind = "object"
    /\ doc.donations.t = "list"
    /\ doc.identities.t = "list"
    /\ doc.orders.t = "list"

\* C18: every readRegistry() returns a document in which donations,
\* identities and orders are present and are lists, whatever was stored.
C18_LoadReturnsValidDocument ==
    resp.op = "readRegistry" => StructurallyValid(resp.returned)

\* A stored object one of whose three collections is present but no list.
HasMistypedCollection(file) ==
    /\ file.kind = "object"
    /\ \/ file.donations.t = "string"
       \/ file.identities.t = "string"
       \/ file.orders.t = "string"

\* C19: readRegistry() on a stored object with a collection that is present
\* but no list returns the object with that collection empty and the lists
\* it had unchanged, and the file holds the returned document.
C19_MistypedCollectionRepaired ==
    [][(Ord_ReadRegistry /\ HasMistypedCollection(registry))
       => (/\ resp'.returned.kind = "object"
           /\ \A c \in {"donations", "identities", "orders"} :
                 resp'.returned[c] = IF registry[c].t = "list" THEN registry[c]
                                     ELSE List(<<>>)
           /\ registry' = resp'.returned)]_vars

\* A load has just repaired a mistyped donations collection and kept the
\* identities on file.
C19_Witness ==
    /\ resp.op = "readRegistry"
    /\ resp.stored.kind = "object"
    /\ resp.stored.donations = NotAList
    /\ resp.stored.identities = List(<<"x">>)
    /\ resp.returned.donations = List(<<>>)
    /\ resp.returned.identities = List(<<"x">>)
    /\ registry = resp.returned

\* C20: unparsable stored text is not overwritten unless a backup holding
\* exactly that text exists afterwards.
C20_BackupBeforeReset ==
    [][(Unparsable(registry) /\ registry' # registry)
       => \E b \in backups' : b.content = registry]_vars

C22_RecordsNeverRemoved ==
    [][/\ \A i \in 1..Len(registry.donations) :
             \E j \in 1..Len(registry'.donations) :
                 registry'.donations[j].id = registry.donations[i].id
       /\ \A i \in 1..Len(registry.orders) :
             \E j \in 1..Len(registry'.orders) :
                 registry'.orders[j].order_id = registry.orders[i].order_id
       /\ \A i \in 1..Len(registry.identities) :
             \E j \in 1..Len(registry'.identities) :
                 /\ registry'.identities[j].identity_id = registry.identities[i].identity_id
                 /\ \A m \in 1..Len(registry.identities[i].soulmarks) :
                       Includes(registry'.identities[j].soulmarks,
                                registry.identities[i].soulmarks[m])]_vars

\* C23: a handler that saves the registry saves a change of the registry as
\* it is on file at that moment: no other save has happened since its load.
C23_NoLostUpdate ==
    [][\A k \in 1..Len(inflight) :
          Ord_CheckoutFromOrderCompleteStep(k) => inflight[k].registry = registry]_vars

\* A register-username body with every field present whose email is on the
\* deny-list and does not own the mark it presents.
UnownedAndDisposable(in) ==
    /\ in[1] # "" /\ in[2] # "" /\ in[3] # ""
    /\ isDisposableEmail(in[1])
    /\ ~MarkBelongsTo(in[3], in[1])

\* C27: in every state, a claim whose mark the email does not own and whose
\* email is on the deny-list is answered MarkNotOwned.
C27_OwnershipBeforeDisposable ==
    \A in \in RegisterUsernameInputs :
        UnownedAndDisposable(in) => P1_Answer(in).error = "MarkNotOwned"

\* The order with this id in the registry on file, 0 when there is none.
OrderIdx(order_id) == FindIdx(registry.orders, LAMBDA o : o.order_id = order_id)

\* C24: create-checkout-session-from-order with an id of no order is answered
\* OrderNotFound, with the id of a paid order AlreadyPaid; in both cases no
\* processor call is started, no session is created and the registry is
\* unchanged.
C24_UnknownOrPaidOrderRejected ==
    [][\A order_id \in OrderIdInputs \ {""} :
          Ord_CheckoutFromOrderBeginStep(order_id)
          => /\ OrderIdx(order_id) = 0
                => (/\ inflight' = inflight /\ sessions' = sessions
                    /\ registry' = registry
                    /\ resp'.error = "OrderNotFound")
             /\ (OrderIdx(order_id) # 0 /\ registry.orders[OrderIdx(order_id)].status = "paid")
                => (/\ inflight' = inflight /\ sessions' = sessions
                    /\ registry' = registry
                    /\ resp'.error = "AlreadyPaid")]_vars

\* A checkout request for a paid order has just been refused.
C24_Witness ==
    /\ resp.op = "checkout-from-order"
    /\ resp.error = "AlreadyPaid"
    /\ \E i \in 1..Len(registry.orders) :
          registry.orders[i].status = "paid" /\ registry.orders[i].stripe_session_id # ""

\* C25: check-username answers "not available" exactly when some identity's
\* handle equals the requested handle after lowercasing both, and it leaves
\* the registry as it was.
C25_AvailabilityIsCaseInsensitive ==
    [][\A u \in Usernames :
          CheckUsernameStep(u)
          => /\ resp'.available =
                   ~(\E i \in 1..Len(registry.identities) :
                        toLowerCase(registry.identities[i].username) = toLowerCase(u))
             /\ registry' = registry]_vars

\* A handle that an identity holds has just been reported as not available.
C25_Witness ==
    /\ resp.op = "check-username"
    /\ ~resp.available
    /\ Len(registry.identities) >= 1

\* C28: in every state, a register-username call that is rejected leaves the
\* identities and the donation records exactly as they are.
C28_RejectedClaimChangesNothing ==
    \A in \in RegisterUsernameInputs :
        P1_Answer(in).status # 200
        => /\ P1_Answer(in).registry.identities = registry.identities
           /\ P1_Answer(in).registry.donations = registry.donations

\* A claim has just been rejected while the registry holds an identity and a
\* donation record bound to it.
C28_Witness ==
    /\ resp.op = "register-username"
    /\ resp.status # 200
    /\ Len(registry.identities) >= 1
    /\ \E i \in 1..Len(registry.donations) : registry.donations[i].username_created

\* C29: in every state, a register-username call that succeeds leaves every
\* donation record whose email equals the claimed email after lowercasing
\* with username_created = true and identity_username = the lowercased
\* handle, and every other donation record as it was.
C29_ClaimStampsOwnDonations ==
    \A in \in RegisterUsernameInputs :
        P1_Answer(in).status = 200
        => /\ Len(P1_Answer(in).registry.donations) = Len(registry.donations)
           /\ \A i \in 1..Len(registry.donations) :
                 IF toLowerCase(registry.donations[i].email) = toLowerCase(in[1])
                 THEN /\ P1_Answer(in).registry.donations[i].username_created
                      /\ P1_Answer(in).registry.donations[i].identity_username
                            = toLowerCase(in[2])
                 ELSE P1_Answer(in).registry.donations[i] = registry.donations[i]

\* A claim has just succeeded: the donation record of the claiming email,
\* stored in another letter case, is bound and the record of another email
\* is not.
C29_Witness ==
    /\ resp.op = "register-username"
    /\ resp.status = 200
    /\ \E i, j \in 1..Len(registry.donations) :
          /\ registry.donations[i].email = "A@x.com"
          /\ registry.donations[i].username_created
          /\ registry.donations[j].email = "b@y.com"
          /\ ~registry.donations[j].username_created

\* C30: an order that carries a mark carries the first mark it was given: no
\* later verify-donation of a paid session with its order id has put another
\* mark on it.
C30_OrderMarkSetOnce ==
    \A i \in 1..Len(registry.orders) :
        (registry.orders[i].order_id \in OrderIds /\ registry.orders[i].soulmark # "")
        => firstMark[registry.orders[i].order_id] = registry.orders[i].soulmark

\* C26: every record of donations_fixed.json has three visibility flags that
\* are booleans and not all false; a record that came without a handle and
\* with an email has the handle derived from the local part of the email, and
\* a record that came with a handle has kept it.
C26_RepairedRecordsVisible ==
    resp.op = "fix-donations"
    => \A i \in 1..Len(registry) :
          LET d == registry[i]
              repaired == resp.fixed[i]
              flags == {repaired.visibility.showName, repaired.visibility.showUsername,
                        repaired.visibility.showAmount}
          IN /\ flags \subseteq {"true", "false"}
             /\ flags # {"false"}
             /\ (trim(d.username) = "" /\ IncludesAt(d.email))
                => repaired.username = LocalPart(d.email) \o "@iascendai"
             /\ trim(d.username) # "" => repaired.username = d.username

\* The record of session id on file, 0 when there is none.
DonationIdx(id) == FindIdx(registry.donations, LAMBDA d : d.id = id)

\* C31: a verify-donation of a paid session that has a donation record leaves
\* on file a record whose name, email, amount, timestamp and mark are the old
\* ones where those were not empty and are filled where they were; a mark is
\* minted only when the record had none.
C31_RepeatConfirmationBackfills ==
    [][\A k \in 1..Len(inflight) :
          (/\ P1_VerifyCompleteStep(k)
           /\ ~UnpaidOrMissing(SessionIdx(inflight[k].id))
           /\ DonationIdx(inflight[k].id) # 0)
          => LET old == registry.donations[DonationIdx(inflight[k].id)]
                 new == registry'.donations[DonationIdx(inflight[k].id)]
             IN /\ Len(registry'.donations) = Len(registry.donations)
                /\ new.name # "" /\ (old.name # "" => new.name = old.name)
                /\ new.email # "" /\ (old.email # "" => new.email = old.email)
                /\ new.amount # 0 /\ (old.amount # 0 => new.amount = old.amount)
                /\ new.timestamp # 0 /\ (old.timestamp # 0 => new.timestamp = old.timestamp)
                /\ new.soulmark # "" /\ (old.soulmark # "" => new.soulmark = old.soulmark)
                /\ (nonce' # nonce) = (old.soulmark = "")]_vars

\* The domain of the email is a deny-list entry or a subdomain of one.
DomainDenied(email) ==
    \E d \in bannedDomains : IsLabelSuffix(d, EmailDomain(email))

\* C32: a register-username call with every field present and a mark the
\* email owns is rejected as a disposable email exactly when the lowercased
\* domain of the email is a deny-list entry or a subdomain of one.
C32_DisposableGateIsSuffixMatch ==
    [][\A in \in GateRegisterInputs :
          (P1_RegisterUsernameStep(in) /\ MarkBelongsTo(in[3], in[1]))
          => ((resp'.error = "DisposableEmail") = DomainDenied(in[1]))]_vars

\* The payer of a subdomain of a deny-list entry has just been refused.
C32_Witness ==
    /\ resp.op = "register-username"
    /\ resp.error = "DisposableEmail"
    /\ \E i \in 1..Len(registry.donations) :
          registry.donations[i].email = "t@sub.mailinator.com"
    /\ registry.identities = <<>>

\* C33: once two verify-donation requests of the same paid session have been
\* suspended on the processor at the same time, the registry still holds at
\* most one donation record per session id, and every record carries the
\* first mark its session was given.
C33_OverlappingConfirmationsOneRecord ==
    overlapped
    => /\ \A i, j \in 1..Len(registry.donations) :
             registry.donations[i].id = registry.donations[j].id => i = j
       /\ \A i \in 1..Len(registry.donations) :
             firstMark[registry.donations[i].id] = registry.donations[i].soulmark

\* Two verify-donation requests of the one paid session overlapped and have
\* both been answered: one record, one mark minted.
C33_Witness ==
    /\ overlapped
    /\ inflight = <<>>
    /\ resp.op = "verify" /\ resp.status = 200 /\ resp.verified
    /\ Len(sessions) = 1
    /\ Len(registry.donations) = 1
    /\ nonce.mark = 1

\* C34: register-username runs from its read of the registry to its write
\* without suspension, so of two claims of one handle by two emails that each
\* own a mark the second finds the first: in every state no two identities of
\* different emails hold the same handle, and a well-formed claim of a handle
\* that an identity of another email holds does not succeed and adds no
\* identity.
C34_SameHandleOneWinner ==
    /\ \A i, j \in 1..Len(registry.identities) :
          (toLowerCase(registry.identities[i].username)
              = toLowerCase(registry.identities[j].username))
          => (toLowerCase(registry.identities[i].email)
                 = toLowerCase(registry.identities[j].email))
    /\ \A in \in RegisterUsernameInputs :
          (WellFormedClaim(in) /\ OwnedByOtherEmail(in[1], in[2]))
          => /\ P1_Answer(in).status # 200
             /\ Len(P1_Answer(in).registry.identities) = Len(registry.identities)

\* Two emails own a mark each, one of them holds a handle, and a claim of
\* that handle has just been answered "taken".
C34_Witness ==
    /\ resp.op = "register-username"
    /\ resp.error = "HandleTaken"
    /\ Len(registry.identities) = 1
    /\ \E i, j \in 1..Len(registry.donations) :
          /\ toLowerCase(registry.donations[i].email)
                # toLowerCase(registry.donations[j].email)
          /\ registry.donations[i].soulmark # ""
          /\ registry.donations[j].soulmark # ""

\* C35: every mark in an identity's mark list is the mark of a donation
\* record whose email equals the identity's email after lowercasing.
C35_IdentityMarksAreOwned ==
    \A i \in 1..Len(registry.identities) :
        \A m \in 1..Len(registry.identities[i].soulmarks) :
            MarkBelongsTo(registry.identities[i].soulmarks[m], registry.identities[i].email)

\* C36: every paid order carries the id of a processor session that has a
\* donation record.
C36_PaidOrderSessionHasDonation ==
    \A i \in 1..Len(registry.orders) :
        registry.orders[i].status = "paid"
        => \E j \in 1..Len(registry.donations) :
              registry.donations[j].id = registry.orders[i].stripe_session_id

\* Some identity has this email, after lowercasing.
HasIdentity(email) ==
    \E i \in 1..Len(registry.identities) :
        toLowerCase(registry.identities[i].email) = toLowerCase(email)

\* C38: every donation record whose email has an identity carries
\* username_created = true and the handle of that identity.
C38_DonationsOfIdentityAreBound ==
    \A d \in 1..Len(registry.donations) :
        \A i \in 1..Len(registry.identities) :
            (toLowerCase(registry.identities[i].email)
                = toLowerCase(registry.donations[d].email))
            => /\ registry.donations[d].username_created
               /\ registry.donations[d].identity_username = registry.identities[i].username

\* C37: every donation record with username_created = true carries in
\* identity_username the current handle of the identity that has the
\* record's email after lowercasing.
C37_BoundHandleIsCurrentHandle ==
    \A d \in 1..Len(registry.donations) :
        registry.donations[d].username_created
        => /\ HasIdentity(registry.donations[d].email)
           /\ \A i \in 1..Len(registry.identities) :
                 (toLowerCase(registry.identities[i].email)
                     = toLowerCase(registry.donations[d].email))
                 => registry.donations[d].identity_username = registry.identities[i].username

\* A record stored with an email in capitals is bound to the handle of the
\* identity of its lowercased email, beside a record of another payer that is
\* not bound.
C37_Witness ==
    /\ \E d \in 1..Len(registry.donations) :
          /\ registry.donations[d].username_created
          /\ registry.donations[d].email # toLowerCase(registry.donations[d].email)
          /\ registry.donations[d].identity_username # ""
          /\ HasIdentity(registry.donations[d].email)
    /\ \E d \in 1..Len(registry.donations) :
          /\ ~registry.donations[d].username_created
          /\ ~HasIdentity(registry.donations[d].email)

\* C39: the answer of the public donations view holds no pair of a mark and
\* an email that passes the mark-ownership check of the handle claim.
C39_PublicViewRevealsNoOwnedMark ==
    resp.op = "donations"
    => \A k \in 1..Len(resp.donations) :
          \/ resp.donations[k].soulmark = ""
          \/ ~MarkBelongsTo(resp.donations[k].soulmark, resp.donations[k].email)

=============================================================================
